---- MODULE Spec2Model ----
(***************************************************************************)
(* Model of src/page.rs of thrak: the freelist merge (merge and            *)
(* merge_page_ids), the typed views of a Page (meta, leaf/branch element   *)
(* arrays) and the key/value accessors of LeafPageElement.                 *)
(*                                                                         *)
(* Three specifications share the module:                                  *)
(*   Spec      a caller runs merge(in1, in2) and then merge(in2, in1),     *)
(*             the loop of merge_page_ids one iteration per step;          *)
(*   PageSpec  a caller applies the views of Page to a mapped page;        *)
(*   LeafSpec  a caller applies key() and value() to a leaf element.       *)
(* Indices i, j, counter, idx, pos are 0-based as in the source; TLA+      *)
(* sequences are 1-based, so a[i] of the source is heap[a][i + 1].         *)
(***************************************************************************)
EXTENDS Integers, Sequences, FiniteSets, Bags, TLC

\* ---------------------------------------------------------------- bounds
MaxLen == 2
MaxVal == 2
MaxCount == 2
MaxAddr == 2
MaxField == 1
BufLen == 3
MaxSize == 2
MaxByte == 1

\* ------------------------------------------------------------- constants
BRANCH_PAGE_ELEMENT_SIZE == 24
LEAF_PAGE_ELEMENT_SIZE == 36
BRANCH_PAGE_FLAG == 1
LEAF_PAGE_FLAG == 2
META_PAGE_FLAG == 4
FREELIST_PAGE_FLAG == 16
BUCKET_LEAF_FLAG == 1

PageIds == 0 .. MaxVal

SeqsUpTo(S, n) == UNION { [1 .. k -> S] : k \in 0 .. n }

\* ------------------------------------------------------------- variables
VARIABLES
    \* merge
    in1, in2,       \* the two vectors the caller passes (never written)
    heap,           \* the live Vec<PageId> buffers, by reference
    call,           \* 1: merge(in1, in2) runs, 2: merge(in2, in1) runs
    a, b,           \* the references merge received as a and b
    merged,         \* the reference of the buffer merge allocated ("none")
    i, j, counter,  \* the locals of merge_page_ids
    writes,         \* per slot of dst, the stores merge_page_ids has made
    ret,            \* the reference merge returned ("none")
    res1,           \* the value the first call returned
    pc,             \* the position of the caller / merge / merge_page_ids
    \* Page views
    layout,         \* the field order of a slice reference in this build
    page,           \* the Page header the views are applied to
    metaMem,        \* the Meta record mapped at the address meta() reads
    pop,            \* the view the caller applied ("none" before)
    pout,           \* what that view returned
    \* LeafPageElement accessors
    eaddr,          \* the address of the LeafPageElement
    elem,           \* the LeafPageElement key() and value() are applied to
    bytes,          \* the mapped bytes from the element's own address on
    vpos,           \* where the writer put the value bytes
    kout, vout      \* what key() and value() returned ("none" before)

mvars == << in1, in2, heap, call, a, b, merged, i, j, counter, writes, ret, res1, pc >>
pvars == << layout, page, metaMem, pop, pout >>
lvars == << eaddr, elem, bytes, vpos, kout, vout >>
vars == << mvars, pvars, lvars >>

\* ------------------------------------------------------------ data types
\* struct Meta, every field over a small domain.
Fields == 0 .. MaxField

Metas ==
    [magic : Fields, version : Fields, page_size : Fields, flags : Fields,
     freelist : Fields, page_id : Fields, tx_id : Fields, checksum : Fields]

ZeroMeta ==
    [magic |-> 0, version |-> 0, page_size |-> 0, flags |-> 0,
     freelist |-> 0, page_id |-> 0, tx_id |-> 0, checksum |-> 0]

\* body_ptr is a u128: its low and its high 64 bits.
Words == [lo : 0 .. MaxAddr, hi : 0 .. MaxAddr]

\* struct Page.
Pages ==
    [page_id : {0},
     flag : {BRANCH_PAGE_FLAG, LEAF_PAGE_FLAG, META_PAGE_FLAG, FREELIST_PAGE_FLAG},
     count : 0 .. MaxCount,
     overflow : {0},
     body_ptr : Words]

\* struct LeafPageElement.
LeafPageElements ==
    [flag : {0, BUCKET_LEAF_FLAG},
     pos : 0 .. BufLen,
     key_size : 0 .. MaxSize,
     value_size : 0 .. MaxSize,
     page_id : {0}]

\* The two field orders a build may give a slice reference (&[T] has no
\* guaranteed layout; rustc puts the data pointer first).
Layouts == {"ptr_len", "len_ptr"}

\* ------------------------------------------------------------------ merge
\* A vector of n zeroes: the merged.insert(i, 0) loop of merge.
Zeroes(n) == [k \in 1 .. n |-> 0]

\* &s[k..] for a 0-based k <= len(s).
SliceFrom(s, k) == SubSeq(s, k + 1, Len(s))

\* The loop condition of merge_page_ids.
LoopCondLe(ii, jj, la, lb) == ii <= la /\ jj <= lb
LoopCond(ii, jj, la, lb) == ii < la /\ jj < lb

\* The comparison of the loop body: TRUE when a's element is stored.
TakeAOnTie(ai, bj) == ai <= bj
TakeAGreater(ai, bj) == ai > bj
TakeA(ai, bj) == ai < bj

\* The value stored into dst[counter].
StoredAlwaysA(takeA, ai, bj) == ai
Stored(takeA, ai, bj) == IF takeA THEN ai ELSE bj

\* The indices after one iteration.
NextI(ii, takeA) == IF takeA THEN ii + 1 ELSE ii
NextJBoth(jj, takeA) == jj + 1
NextJ(jj, takeA) == IF takeA THEN jj ELSE jj + 1

\* Which input merge copies when one of them is empty.
EmptyCaseSourceSwapped(va, vb, ra, rb) == IF Len(va) = 0 THEN ra ELSE rb
EmptyCaseSource(va, vb, ra, rb) == IF Len(va) = 0 THEN rb ELSE ra

\* The reference of the buffer the running call allocates.
NewRef == IF call = 1 THEN "out1" ELSE "out2"

\* The variables of merge while another specification runs.
MergeIdle ==
    /\ in1 = << >>
    /\ in2 = << >>
    /\ heap = [r \in {"in1", "in2"} |-> << >>]
    /\ call = 1
    /\ a = "in1"
    /\ b = "in2"
    /\ merged = "none"
    /\ i = 0
    /\ j = 0
    /\ counter = 0
    /\ writes = << >>
    /\ ret = "none"
    /\ res1 = << >>
    /\ pc = "idle"

\* The variables of the Page views while another specification runs.
PageIdle ==
    /\ layout = "ptr_len"
    /\ page = [page_id |-> 0, flag |-> 0, count |-> 0, overflow |-> 0,
               body_ptr |-> [lo |-> 0, hi |-> 0]]
    /\ metaMem = ZeroMeta
    /\ pop = "none"
    /\ pout = [tag |-> "none"]

\* The variables of the accessors while another specification runs.
LeafIdle ==
    /\ eaddr = 0
    /\ elem = [flag |-> 0, pos |-> 0, key_size |-> 0, value_size |-> 0, page_id |-> 0]
    /\ bytes = << >>
    /\ vpos = 0
    /\ kout = [tag |-> "none"]
    /\ vout = [tag |-> "none"]

Init ==
    /\ in1 \in SeqsUpTo(PageIds, MaxLen)
    /\ in2 \in SeqsUpTo(PageIds, MaxLen)
    /\ heap = [r \in {"in1", "in2"} |-> IF r = "in1" THEN in1 ELSE in2]
    /\ call = 1
    /\ a = "in1"
    /\ b = "in2"
    /\ merged = "none"
    /\ i = 0
    /\ j = 0
    /\ counter = 0
    /\ writes = << >>
    /\ ret = "none"
    /\ res1 = << >>
    /\ pc = "merge"
    /\ PageIdle
    /\ LeafIdle

\* merge, lines 103-108: an empty input, the other one is cloned and returned.
MergeEmpty ==
    /\ pc = "merge"
    /\ Len(heap[a]) = 0 \/ Len(heap[b]) = 0
    /\ heap' = (NewRef :> heap[EmptyCaseSource(heap[a], heap[b], a, b)]) @@ heap
    /\ ret' = NewRef
    /\ pc' = "done"
    /\ UNCHANGED << in1, in2, call, a, b, merged, i, j, counter, writes, res1 >>
    /\ UNCHANGED << pvars, lvars >>

\* merge, lines 109-113: the zero-filled buffer, then the call of merge_page_ids.
MergeAlloc ==
    /\ pc = "merge"
    /\ Len(heap[a]) # 0 /\ Len(heap[b]) # 0
    /\ heap' = (NewRef :> Zeroes(Len(heap[a]) + Len(heap[b]))) @@ heap
    /\ merged' = NewRef
    /\ writes' = Zeroes(Len(heap[a]) + Len(heap[b]))
    /\ pc' = "mpi"
    /\ UNCHANGED << in1, in2, call, a, b, i, j, counter, ret, res1 >>
    /\ UNCHANGED << pvars, lvars >>

\* merge_page_ids, lines 118-129: the two early returns, else the locals.
MpiEntry ==
    /\ pc = "mpi"
    /\ LET dst == heap[merged]
           va == heap[a]
           vb == heap[b]
       IN IF Len(va) = 0
          THEN IF Len(vb) > Len(dst)
               THEN pc' = "panic" /\ UNCHANGED << heap, writes >>
               ELSE /\ heap' = [heap EXCEPT ![merged] =
                                   [k \in 1 .. Len(dst) |-> IF k <= Len(vb) THEN vb[k] ELSE dst[k]]]
                    /\ writes' = [k \in 1 .. Len(dst) |-> IF k <= Len(vb) THEN writes[k] + 1 ELSE writes[k]]
                    /\ pc' = "ret"
          ELSE IF Len(vb) = 0
          THEN IF Len(va) > Len(dst)
               THEN pc' = "panic" /\ UNCHANGED << heap, writes >>
               ELSE /\ heap' = [heap EXCEPT ![merged] =
                                   [k \in 1 .. Len(dst) |-> IF k <= Len(va) THEN va[k] ELSE dst[k]]]
                    /\ writes' = [k \in 1 .. Len(dst) |-> IF k <= Len(va) THEN writes[k] + 1 ELSE writes[k]]
                    /\ pc' = "ret"
          ELSE pc' = "loop" /\ UNCHANGED << heap, writes >>
    /\ i' = 0
    /\ j' = 0
    /\ counter' = 0
    /\ UNCHANGED << in1, in2, call, a, b, merged, ret, res1 >>
    /\ UNCHANGED << pvars, lvars >>

\* merge_page_ids, lines 130-139: one iteration of the while loop.  The reads
\* a[i], b[j] and the store dst[counter] are bounds-checked and panic.
LoopStep ==
    /\ pc = "loop"
    /\ LoopCond(i, j, Len(heap[a]), Len(heap[b]))
    /\ IF i >= Len(heap[a]) \/ j >= Len(heap[b]) \/ counter >= Len(heap[merged])
       THEN /\ pc' = "panic"
            /\ UNCHANGED << heap, writes, i, j, counter >>
       ELSE LET ai == heap[a][i + 1]
                bj == heap[b][j + 1]
                takeA == TakeA(ai, bj)
            IN /\ heap' = [heap EXCEPT ![merged][counter + 1] = Stored(takeA, ai, bj)]
               /\ writes' = [writes EXCEPT ![counter + 1] = @ + 1]
               /\ i' = NextI(i, takeA)
               /\ j' = NextJ(j, takeA)
               /\ counter' = counter + 1
               /\ pc' = "loop"
    /\ UNCHANGED << in1, in2, call, a, b, merged, ret, res1 >>
    /\ UNCHANGED << pvars, lvars >>

\* merge_page_ids, lines 140-144: the rest of the unfinished input is copied.
\* The slices dst[counter..], b[j..], a[i..] are bounds-checked and
\* copy_from_slice panics when the two lengths differ.
TailCopy ==
    /\ pc = "loop"
    /\ ~ LoopCond(i, j, Len(heap[a]), Len(heap[b]))
    /\ LET dst == heap[merged]
           src == IF i = Len(heap[a]) THEN heap[b] ELSE heap[a]
           from == IF i = Len(heap[a]) THEN j ELSE i
       IN IF counter > Len(dst) \/ from > Len(src)
             \/ Len(dst) - counter # Len(src) - from
          THEN /\ pc' = "panic"
               /\ UNCHANGED << heap, writes >>
          ELSE /\ heap' = [heap EXCEPT ![merged] = SubSeq(dst, 1, counter) \o SliceFrom(src, from)]
               /\ writes' = [k \in 1 .. Len(dst) |-> IF k > counter THEN writes[k] + 1 ELSE writes[k]]
               /\ pc' = "ret"
    /\ UNCHANGED << in1, in2, call, a, b, merged, i, j, counter, ret, res1 >>
    /\ UNCHANGED << pvars, lvars >>

\* merge, line 114: merged is returned.
MergeReturn ==
    /\ pc = "ret"
    /\ ret' = merged
    /\ pc' = "done"
    /\ UNCHANGED << in1, in2, heap, call, a, b, merged, i, j, counter, writes, res1 >>
    /\ UNCHANGED << pvars, lvars >>

\* The caller keeps the first result and calls merge with the arguments swapped.
CallSwapped ==
    /\ pc = "done"
    /\ call = 1
    /\ res1' = heap[ret]
    /\ call' = 2
    /\ a' = "in2"
    /\ b' = "in1"
    /\ merged' = "none"
    /\ ret' = "none"
    /\ i' = 0
    /\ j' = 0
    /\ counter' = 0
    /\ writes' = << >>
    /\ pc' = "merge"
    /\ UNCHANGED << in1, in2, heap >>
    /\ UNCHANGED << pvars, lvars >>

\* The caller owns the returned vector and appends to it.
CallerMutate ==
    /\ pc = "done"
    /\ call = 2
    /\ heap' = [heap EXCEPT ![ret] = Append(@, 0)]
    /\ pc' = "final"
    /\ UNCHANGED << in1, in2, call, a, b, merged, i, j, counter, writes, ret, res1 >>
    /\ UNCHANGED << pvars, lvars >>

Next ==
    \/ MergeEmpty
    \/ MergeAlloc
    \/ MpiEntry
    \/ LoopStep
    \/ TailCopy
    \/ MergeReturn
    \/ CallSwapped
    \/ CallerMutate

Spec == Init /\ [][Next]_vars

FairSpec == Spec /\ WF_vars(Next)

\* ------------------------------------------------- properties of merge
StrictlyAscending(s) == \A k \in 1 .. Len(s) - 1 : s[k] < s[k + 1]

Elems(s) == { s[k] : k \in 1 .. Len(s) }

BagOf(s) == [v \in Elems(s) |-> Cardinality({ k \in 1 .. Len(s) : s[k] = v })]

\* The precondition of merge: both ascending without duplicates, disjoint.
MergePre(va, vb) ==
    /\ StrictlyAscending(va)
    /\ StrictlyAscending(vb)
    /\ Elems(va) \cap Elems(vb) = {}

\* The loop is about to compare two equal elements.
AtTie ==
    /\ pc = "loop"
    /\ LoopCond(i, j, Len(heap[a]), Len(heap[b]))
    /\ i < Len(heap[a]) /\ j < Len(heap[b])
    /\ heap[a][i + 1] = heap[b][j + 1]

\* C1: for strictly ascending, disjoint a and b, merge(a, b) returns a
\* strictly ascending sequence of length len(a) + len(b) whose elements are
\* exactly those of a and of b.
C1_MergeSortedUnion ==
    (pc = "done" /\ MergePre(heap[a], heap[b])) =>
        /\ StrictlyAscending(heap[ret])
        /\ Len(heap[ret]) = Len(heap[a]) + Len(heap[b])
        /\ Elems(heap[ret]) = Elems(heap[a]) \cup Elems(heap[b])

\* C1 happens: a call on valid inputs that interleave has returned.
C1_InterleavedMerged ==
    /\ pc = "done"
    /\ MergePre(heap[a], heap[b])
    /\ Len(heap[a]) >= 2 /\ Len(heap[b]) >= 1
    /\ heap[a][1] < heap[b][1] /\ heap[b][1] < heap[a][2]

C5_MergeTerminates ==
    /\ [][(pc = "loop" /\ pc' = "loop") =>
            /\ (i' = i + 1 /\ j' = j) \/ (i' = i /\ j' = j + 1)
            /\ counter' = counter + 1]_vars
    /\ [](pc = "loop" => counter <= Len(heap[a]) + Len(heap[b]))
    /\ <>(pc = "final")

\* C5 happens: the loop has run to its end on unsorted, overlapping inputs
\* with a duplicate.
C5_LoopRanOnInvalidInputs ==
    /\ pc = "ret"
    /\ counter >= 2
    /\ ~ StrictlyAscending(heap[a])
    /\ Elems(heap[a]) \cap Elems(heap[b]) # {}
    /\ Cardinality(Elems(heap[b])) < Len(heap[b])

\* C6: with an empty input the result equals the other input, it is a
\* buffer of its own, and the inputs are never written, not even when the
\* caller changes the result.
C6_EmptyInputCopies ==
    /\ heap["in1"] = in1
    /\ heap["in2"] = in2
    /\ (pc = "done" /\ (Len(heap[a]) = 0 \/ Len(heap[b]) = 0)) =>
           /\ ret \notin {a, b}
           /\ Len(heap[a]) = 0 => heap[ret] = heap[b]
           /\ Len(heap[b]) = 0 => heap[ret] = heap[a]

\* C6 happens: merge([], b) with a non-empty b has returned and the caller
\* has changed the result.
C6_CopyReturnedAndMutated ==
    /\ pc = "final"
    /\ Len(heap[a]) = 0
    /\ Len(heap[b]) > 0
    /\ heap[ret] = Append(heap[b], 0)

\* C7: merge(a, b) and merge(b, a) hold the same multiset of PageIds, that
\* of a and b together, and both have length len(a) + len(b).
C7_MergeCommutesInContent ==
    (pc = "done" /\ call = 2) =>
        /\ BagOf(res1) = BagOf(heap[ret])
        /\ BagOf(heap[ret]) = BagOf(in1 \o in2)
        /\ Len(res1) = Len(in1) + Len(in2)
        /\ Len(heap[ret]) = Len(in1) + Len(in2)

\* C7 happens: both calls have returned, and the two results differ in order.
C7_BothOrdersMerged ==
    /\ pc = "done"
    /\ call = 2
    /\ Len(in1) > 0 /\ Len(in2) > 0
    /\ res1 # heap[ret]

\* C10: in merge_page_ids called from merge nothing panics; in the loop
\* counter == i + j, a store has counter < len(dst), i and j stay within
\* their inputs, the tail copy has equal source and destination lengths,
\* and on return every slot of dst has been stored exactly once.
C10_MergeInBounds ==
    /\ pc # "panic"
    /\ pc = "loop" =>
          /\ counter = i + j
          /\ i <= Len(heap[a]) /\ j <= Len(heap[b])
          /\ LoopCond(i, j, Len(heap[a]), Len(heap[b])) =>
                /\ i < Len(heap[a]) /\ j < Len(heap[b])
                /\ counter < Len(heap[merged])
          /\ ~ LoopCond(i, j, Len(heap[a]), Len(heap[b])) =>
                Len(heap[merged]) - counter =
                    IF i = Len(heap[a]) THEN Len(heap[b]) - j ELSE Len(heap[a]) - i
    /\ pc = "ret" => \A k \in 1 .. Len(heap[merged]) : writes[k] = 1

\* C10 happens: the loop stored at least two slots and the tail copy the rest.
C10_LoopAndTailDone ==
    /\ pc = "ret"
    /\ counter >= 2
    /\ counter < Len(heap[merged])

\* ------------------------------------------------------------- Page views
\* mem::transmute::<u128, &[T]>(w): the slice reference the 16 bytes of w are
\* read as, which depends on the field order of slice references.
SliceRef(lay, w) ==
    IF lay = "ptr_len"
    THEN [data |-> w.lo, len |-> w.hi]
    ELSE [data |-> w.hi, len |-> w.lo]

\* Page::meta: the Meta at the address in the low 64 bits of body_ptr.
meta(p, mem) == [tag |-> "Ok", addr |-> p.body_ptr.lo, rec |-> mem]

\* Page::leaf_page_element: the idx-th record of the slice, bounds-checked
\* against the length of the slice.
leaf_page_element(lay, p, idx) ==
    LET s == SliceRef(lay, p.body_ptr)
    IN IF idx >= s.len
       THEN [tag |-> "panic"]
       ELSE [tag |-> "Ok", addr |-> s.data + idx * LEAF_PAGE_ELEMENT_SIZE]

\* Page::leaf_page_elements.
leaf_page_elements_AlwaysSome(lay, p) ==
    LET s == SliceRef(lay, p.body_ptr)
    IN [tag |-> "Some",
        recs |-> [k \in 1 .. s.len |-> s.data + (k - 1) * LEAF_PAGE_ELEMENT_SIZE]]
leaf_page_elements(lay, p) ==
    LET s == SliceRef(lay, p.body_ptr)
    IN IF p.count = 0
       THEN [tag |-> "None"]
       ELSE [tag |-> "Some",
             recs |-> [k \in 1 .. s.len |-> s.data + (k - 1) * LEAF_PAGE_ELEMENT_SIZE]]

\* Page::branch_page_element.
branch_page_element(lay, p, idx) ==
    LET s == SliceRef(lay, p.body_ptr)
    IN IF idx >= s.len
       THEN [tag |-> "panic"]
       ELSE [tag |-> "Ok", addr |-> s.data + idx * BRANCH_PAGE_ELEMENT_SIZE]

\* Page::branch_page_elements.
branch_page_elements(lay, p) ==
    LET s == SliceRef(lay, p.body_ptr)
    IN IF p.count = 0
       THEN [tag |-> "None"]
       ELSE [tag |-> "Some",
             recs |-> [k \in 1 .. s.len |-> s.data + (k - 1) * BRANCH_PAGE_ELEMENT_SIZE]]

\* A page is mapped; the pointers body_ptr holds are not null.  A Meta page
\* (count 0) has any Meta record behind it.
PageInit ==
    /\ layout \in Layouts
    /\ page \in Pages
    /\ page.body_ptr.lo # 0
    /\ SliceRef(layout, page.body_ptr).data # 0
    /\ metaMem \in IF page.flag = META_PAGE_FLAG /\ page.count = 0
                   THEN Metas
                   ELSE {ZeroMeta}
    /\ pop = "none"
    /\ pout = [tag |-> "none"]
    /\ MergeIdle
    /\ LeafIdle

CallMeta ==
    /\ pop = "none"
    /\ pop' = "meta"
    /\ pout' = meta(page, metaMem)
    /\ UNCHANGED << layout, page, metaMem >>
    /\ UNCHANGED << mvars, lvars >>

CallLeafPageElement ==
    /\ pop = "none"
    /\ \E idx \in 0 .. MaxCount :
          /\ pop' = "leaf_page_element"
          /\ pout' = leaf_page_element(layout, page, idx)
    /\ UNCHANGED << layout, page, metaMem >>
    /\ UNCHANGED << mvars, lvars >>

CallLeafPageElements ==
    /\ pop = "none"
    /\ pop' = "leaf_page_elements"
    /\ pout' = leaf_page_elements(layout, page)
    /\ UNCHANGED << layout, page, metaMem >>
    /\ UNCHANGED << mvars, lvars >>

CallBranchPageElement ==
    /\ pop = "none"
    /\ \E idx \in 0 .. MaxCount :
          /\ pop' = "branch_page_element"
          /\ pout' = branch_page_element(layout, page, idx)
    /\ UNCHANGED << layout, page, metaMem >>
    /\ UNCHANGED << mvars, lvars >>

CallBranchPageElements ==
    /\ pop = "none"
    /\ pop' = "branch_page_elements"
    /\ pout' = branch_page_elements(layout, page)
    /\ UNCHANGED << layout, page, metaMem >>
    /\ UNCHANGED << mvars, lvars >>

PageNext ==
    \/ CallMeta
    \/ CallLeafPageElement
    \/ CallLeafPageElements
    \/ CallBranchPageElement
    \/ CallBranchPageElements

PageSpec == PageInit /\ [][PageNext]_vars

\* ------------------------------------------- properties of the Page views
\* The integrity value of a Meta: a sum over the fields before checksum.
MetaSum(m) ==
    (m.magic + m.version + m.page_size + m.flags + m.freelist + m.page_id + m.tx_id)
        % (MaxField + 1)

\* C4: for a Branch or Leaf page with count > 0 the elements() view has
\* exactly count records, and for every i < count elements()[i] is the
\* record element(i).
C4_ElementsMatchCount ==
    /\ (pop = "leaf_page_elements" /\ page.flag = LEAF_PAGE_FLAG /\ page.count > 0) =>
          /\ pout.tag = "Some"
          /\ Len(pout.recs) = page.count
          /\ \A idx \in 0 .. page.count - 1 :
                leaf_page_element(layout, page, idx) = [tag |-> "Ok", addr |-> pout.recs[idx + 1]]
    /\ (pop = "branch_page_elements" /\ page.flag = BRANCH_PAGE_FLAG /\ page.count > 0) =>
          /\ pout.tag = "Some"
          /\ Len(pout.recs) = page.count
          /\ \A idx \in 0 .. page.count - 1 :
                branch_page_element(layout, page, idx) = [tag |-> "Ok", addr |-> pout.recs[idx + 1]]

\* C8: a Meta whose checksum does not match the rest of the record is
\* rejected by Page::meta with an integrity failure.
C8_CorruptMetaRejected ==
    (pop = "meta" /\ metaMem.checksum # MetaSum(metaMem)) =>
        pout.tag = "IntegrityFailure"

Bytes == 0 .. MaxByte

\* `self as *const LeafPageElement as u128`: the address, zero-extended.
Widen(addr) == [lo |-> addr, hi |-> 0]

Panic == [tag |-> "panic"]

\* &buf[lo..hi], the outcomes.  mem holds the bytes from buf.data on.  The
\* range is checked against the length of buf; a buf whose data pointer is
\* null is undefined behaviour: a panic or any hi - lo bytes.
Index(buf, mem, lo, hi) ==
    IF buf.data = 0
    THEN {Panic} \cup { [tag |-> "Ok", val |-> v] : v \in [1 .. hi - lo -> Bytes] }
    ELSE IF lo > hi \/ hi > buf.len
         THEN {Panic}
         ELSE { [tag |-> "Ok", val |-> SubSeq(mem, lo + 1, hi)] }

\* LeafPageElement::key.
key(lay, addr, e, mem) ==
    Index(SliceRef(lay, Widen(addr)), mem, e.pos, e.pos + e.key_size)

\* LeafPageElement::value.
value(lay, addr, e, mem) ==
    Index(SliceRef(lay, Widen(addr)), mem, e.pos, e.pos + e.value_size)

\* The bytes the writer stored as the key and as the value of the element.
WrittenKey == SubSeq(bytes, elem.pos + 1, elem.pos + elem.key_size)
WrittenValue == SubSeq(bytes, vpos + 1, vpos + elem.value_size)

\* A leaf element is mapped with its key bytes at pos and its value bytes
\* at vpos, the two spans inside the mapped bytes and apart.
LeafInit ==
    /\ layout \in Layouts
    /\ eaddr \in 1 .. MaxAddr
    /\ elem \in LeafPageElements
    /\ bytes \in [1 .. BufLen -> Bytes]
    /\ vpos \in 0 .. BufLen
    /\ elem.pos + elem.key_size <= BufLen
    /\ vpos + elem.value_size <= BufLen
    /\ vpos >= elem.pos + elem.key_size \/ vpos + elem.value_size <= elem.pos
    /\ kout = [tag |-> "none"]
    /\ vout = [tag |-> "none"]
    /\ page = [page_id |-> 0, flag |-> 0, count |-> 0, overflow |-> 0,
               body_ptr |-> [lo |-> 0, hi |-> 0]]
    /\ metaMem = ZeroMeta
    /\ pop = "none"
    /\ pout = [tag |-> "none"]
    /\ MergeIdle

CallKey ==
    /\ kout.tag = "none"
    /\ kout' \in key(layout, eaddr, elem, bytes)
    /\ UNCHANGED << layout, eaddr, elem, bytes, vpos, vout >>
    /\ UNCHANGED << mvars, page, metaMem, pop, pout >>

CallValue ==
    /\ vout.tag = "none"
    /\ vout' \in value(layout, eaddr, elem, bytes)
    /\ UNCHANGED << layout, eaddr, elem, bytes, vpos, kout >>
    /\ UNCHANGED << mvars, page, metaMem, pop, pout >>

LeafNext ==
    \/ CallKey
    \/ CallValue

LeafSpec == LeafInit /\ [][LeafNext]_vars

\* ----------------------------------------- properties of the accessors
\* C3: for a leaf element with key_size > 0 and value_size > 0 whose key
\* and value bytes were written at non-overlapping spans, key() returns the
\* key bytes and value() returns the value bytes.
C3_KeyValueRoundTrip ==
    (elem.key_size > 0 /\ elem.value_size > 0) =>
        /\ kout.tag # "none" => kout = [tag |-> "Ok", val |-> WrittenKey]
        /\ vout.tag # "none" => vout = [tag |-> "Ok", val |-> WrittenValue]

====
